---- MODULE Spec2Model ----
\* Shape-level and data-flow model of the decode heads of
\* mmseg/models/decode_heads: the ELAPFormerHead family (v1..v8, the
\* progressive pyramid fusion heads) and RPFNHead with its FusionNode.
\*
\* A feature map is a record [c, h, w, e]: channel count, height, width and
\* the symbolic expression that produced it (a tuple whose first element is
\* the name of the operation and whose other elements are expressions).  The
\* batch dimension is the same for every tensor of a forward call and is left
\* out.  Indices are 0-based as in the source; At(s, i) reads s[i].
EXTENDS Integers, Sequences, FiniteSets, TLC

VARIABLES kind, pc, err, in_channels, num_index, head, ctor_args, node,
          inputs, _inputs, _out, outs, idx, iters, out, ret,
          feats, P, fed, trace, rx, rsize, rret

vars == <<kind, pc, err, in_channels, num_index, head, ctor_args, node,
          inputs, _inputs, _out, outs, idx, iters, out, ret,
          feats, P, fed, trace, rx, rsize, rret>>

-----------------------------------------------------------------------------
\* Bounds of the model and the configuration the heads are built with.

\* largest number of pyramid levels a head is configured with
MaxLevels == 6
\* the coarsest level is base_h x base_w with both in 1..MaxBase
MaxBase == 2
\* each level is ratio times the next coarser one, ratio in 1..MaxRatio
MaxRatio == 3
\* op_num values tried on FusionNode construction: 0..MaxOpNum
MaxOpNum == 4
\* sides of the maps and targets handed to _resize alone: 1..MaxSize
MaxSize == 5
\* the sides of the operands and targets handed to a FusionNode built on its own
MaxOperand == 2
\* the configured common width (BaseDecodeHead.channels)
channels == 2
\* the configured number of classes (BaseDecodeHead.num_classes)
num_classes == 3

PPF == {"v1", "v2", "v3", "v4", "v5", "v6", "v7", "v8"}
Separable == {"v1", "v2"}
Heads == PPF \cup {"RPFNHead"}
ResizeOwners == {"FusionNode._resize", "RPFNHead._resize"}

-----------------------------------------------------------------------------
\* Feature maps, expressions, results.

At(s, i) == s[i + 1]
Last(s) == s[Len(s)]
Shape(x) == <<x.h, x.w>>
Map(c, h, w, e) == [c |-> c, h |-> h, w |-> w, e |-> e]
NoMap == Map(0, 0, 0, <<"none">>)
Ix(i) == <<ToString(i)>>
SameShape(a, b) == a.c = b.c /\ a.h = b.h /\ a.w = b.w

Ok(m) == [ok |-> TRUE, val |-> m, err |-> "none"]
Fail(msg) == [ok |-> FALSE, val |-> NoMap, err |-> msg]

RECURSIVE Pow(_, _)
Pow(b, k) == IF k = 0 THEN 1 ELSE b * Pow(b, k - 1)

RECURSIVE SumC(_)
SumC(s) == IF s = <<>> THEN 0 ELSE Head(s).c + SumC(Tail(s))

\* s[:k] of Python: the first k entries, fewer when s is shorter
Prefix(s, k) == SubSeq(s, 1, IF Len(s) < k THEN Len(s) ELSE k)

\* whether expression sub occurs in expression e
RECURSIVE Occurs(_, _)
Occurs(sub, e) == \/ e = sub
                  \/ \E i \in 2..Len(e) : Occurs(sub, e[i])

-----------------------------------------------------------------------------
\* Tensor primitives of the framework, at shape level.

\* torch.cat(maps, dim=1): every other dimension must agree
CanCat(maps) == \A i \in 1..Len(maps) : Shape(maps[i]) = Shape(maps[1])
Cat(maps) == Map(SumC(maps), maps[1].h, maps[1].w, <<"cat">> \o [i \in 1..Len(maps) |-> maps[i].e])

\* a + b: dimensions agree or one of them is 1 (broadcasting)
Broadcastable(p, q) == p = q \/ p = 1 \/ q = 1
Max(p, q) == IF p < q THEN q ELSE p
CanAdd(a, b) == Broadcastable(a.c, b.c) /\ Broadcastable(a.h, b.h) /\ Broadcastable(a.w, b.w)
Add(a, b) == Map(Max(a.c, b.c), Max(a.h, b.h), Max(a.w, b.w), <<"add", a.e, b.e>>)

\* a module built for `built` input channels accepts only such maps;
\* kernel 1 or kernel 3 with padding 1, stride 1: spatial size unchanged
Accepts(built, x) == x.c = built
Conv(name, ix, c_out, x) == Map(c_out, x.h, x.w, <<name, ix, x.e>>)

\* mmseg.ops.resize with an explicit size: interpolation to exactly that size
resize(x, size) == Map(x.c, size[1], size[2], <<"resize", x.e>>)

-----------------------------------------------------------------------------
\* Collaborators of the heads that live outside the two head files; only
\* their contract is known.

\* SELayer, LargeKernelAttn, MultiScaleStripAttn: a module built for a channel
\* count maps FeatureMap(C,H,W) to FeatureMap(C,H,W)
Attn(name, ix, x) == Map(x.c, x.h, x.w, <<name, ix, x.e>>)

\* BaseDecodeHead.cls_seg: per-pixel logits over num_classes
cls_seg(x) == Map(num_classes, x.h, x.w, <<"cls_seg", x.e>>)

\* BaseDecodeHead._transform_inputs with 'multiple_select': one map per
\* entry of in_index, in order.  The backbone delivers a pyramid whose coarsest
\* level is bh x bw, each finer level r times larger, level k one row taller
\* (k = 0: none), level i with the configured channel count when there is one.
InputChannels(i) == IF i <= Len(in_channels) THEN in_channels[i] ELSE 1
Bump(i, k) == IF i = k THEN 1 ELSE 0
Pyramid(n, bh, bw, r, k) == [i \in 1..n |-> Map(InputChannels(i), bh * Pow(r, n - i) + Bump(i, k), bw * Pow(r, n - i), <<"inputs", Ix(i - 1)>>)]
Pyramids(n) == {Pyramid(n, q[1], q[2], q[3], q[4]) : q \in (1..MaxBase) \X (1..MaxBase) \X (1..MaxRatio) \X (0..n)}

\* PAA_e(in_channels[i], channels): the lateral projection to the common width
PAA_e(i, x) == Map(channels, x.h, x.w, <<"lateral_convs", Ix(i), x.e>>)

-----------------------------------------------------------------------------
\* ELAPFormerHead, ELAPFormerHead_v2 .. _v8: construction.

NoHead == [ok |-> FALSE, num_inputs |-> 0, convs |-> <<>>, linear_projections |-> 0, sep_conv |-> 0, attn |-> 0, gate |-> 0, fusion_conv |-> 0, RevFP |-> <<>>, context |-> {}]

\* construction without the assertion
CountsUnchecked(num_inputs, n_index) == TRUE

\* assert num_inputs == len(self.in_index)
CountsMatch(num_inputs, n_index) == num_inputs = n_index

\* v6, v7 building one attention module per entry of outs
AttnModulesAll(k, num_inputs) == CASE k \in Separable -> 0
                                   [] k \in {"v3", "v4", "v5", "v8"} -> 1
                                   [] OTHER -> num_inputs

\* how many attention modules the variant builds, each for self.channels
AttnModules(k, num_inputs) == CASE k \in Separable -> 0
                                [] k \in {"v3", "v4", "v5", "v8"} -> 1
                                [] OTHER -> num_inputs - 1

\* the aggregate modules built for the widths of a 4-level head, whatever n
AggregateWidthOfFour(k, num_inputs) == IF k \in Separable THEN channels * 4 ELSE channels * 3

\* channels the squeeze-excitation layer and fusion_conv are built for
AggregateWidth(k, num_inputs) == IF k \in Separable THEN channels * num_inputs ELSE channels * (num_inputs - 1)

\* the attention applied to the aggregate: se_module, or lka in v5, with the
\* channel count it was built for
GateName(k) == IF k = "v5" THEN "lka" ELSE "se_module"
GateWidth(k, num_inputs) == IF k = "v5" THEN channels ELSE AggregateWidth(k, num_inputs)

PPFInit(k, in_ch) == [ok |-> TRUE, num_inputs |-> Len(in_ch), convs |-> in_ch, linear_projections |-> Len(in_ch) - 1, sep_conv |-> IF k \in Separable THEN 2 ELSE 0, attn |-> AttnModules(k, Len(in_ch)), gate |-> GateWidth(k, Len(in_ch)), fusion_conv |-> AggregateWidth(k, Len(in_ch)), RevFP |-> <<>>, context |-> {}]

ConstructPPF == /\ kind \in PPF
                /\ pc = "new"
                /\ IF CountsMatch(Len(in_channels), num_index)
                   THEN head' = PPFInit(kind, in_channels) /\ pc' = "built" /\ err' = "none"
                   ELSE head' = NoHead /\ pc' = "error" /\ err' = "AssertionError"
                /\ UNCHANGED <<kind, in_channels, num_index, ctor_args, node, inputs, _inputs, _out, outs, idx, iters, out, ret, feats, P, fed, trace, rx, rsize, rret>>

-----------------------------------------------------------------------------
\* ELAPFormerHead*.forward: per-level projection and alignment.

\* a trigger that fires on the coarsest level
BranchTriggerCoarsest(i, n) == i = n - 1

\* v3, v4: if idx == len(inputs): feat = self.lka(feat) / self.mssa(feat)
BranchTrigger(i, n) == i = n
BranchName(k) == IF k = "v3" THEN "lka" ELSE "mssa"

ProjectLevel(k, pyr, i) == LET feat0 == Conv("convs", Ix(i), channels, At(pyr, i))
                               feat1 == IF i > 0 THEN resize(feat0, Shape(At(pyr, 1))) ELSE feat0
                           IN  IF k \in {"v3", "v4"} /\ BranchTrigger(i, Len(pyr)) THEN Attn(BranchName(k), Ix(0), feat1) ELSE feat1

\* inputs[1] and self.convs[idx] must exist, and conv idx accept level idx
ProjectError(pyr) == IF Len(pyr) < 2 \/ Len(pyr) > head.num_inputs THEN "IndexError"
                     ELSE IF \E i \in 1..Len(pyr) : ~Accepts(head.convs[i], pyr[i]) THEN "RuntimeError: convs"
                     ELSE "none"

\* _out = torch.empty(_inputs[1].shape): allocated, never written
Empty(x) == Map(x.c, x.h, x.w, <<"empty">>)

ForwardPPF == /\ kind \in PPF
              /\ pc = "built"
              /\ \E pyr \in Pyramids(num_index) :
                    /\ inputs' = pyr
                    /\ IF ProjectError(pyr) # "none"
                       THEN pc' = "error" /\ err' = ProjectError(pyr) /\ UNCHANGED <<_inputs, _out, outs, idx>>
                       ELSE LET lv == [i \in 1..Len(pyr) |-> ProjectLevel(kind, pyr, i - 1)]
                            IN  /\ _inputs' = lv
                                /\ _out' = Empty(At(lv, 1))
                                /\ outs' = <<Last(lv)>>
                                /\ idx' = Len(pyr) - 1
                                /\ pc' = "fuse"
                                /\ err' = "none"
              /\ UNCHANGED <<kind, in_channels, num_index, head, ctor_args, node, iters, out, ret, feats, P, fed, trace, rx, rsize, rret>>

-----------------------------------------------------------------------------
\* ELAPFormerHead*.forward: one iteration of the pairwise fuser loop
\* (for idx in range(len(inputs) - 1, 0, -1)).

\* sep_conv[0]: 1x1 conv (v1), followed in v2 by Conv2d(kernel_size=2, stride=2)
SepConv0Fits(k, x) == k = "v1" \/ (x.h >= 2 /\ x.w >= 2)
SepConv0(k, x) == IF k = "v1" THEN Conv("sep_conv", Ix(0), channels, x) ELSE Map(channels, (x.h - 2) \div 2 + 1, (x.w - 2) \div 2 + 1, <<"sep_conv", Ix(0), x.e>>)

\* the finer level concatenated before the coarser or accumulated one
FuseOperandsFinerFirst(i) == LET x1 == IF i = Len(_inputs) - 1 THEN At(_inputs, i) ELSE _out
                                 x2 == At(_inputs, i - 1)
                             IN  <<x2, IF i = 1 THEN resize(x1, Shape(x2)) ELSE x1>>

\* a first iteration that takes its first operand from _out
FuseOperandsFromAccumulator(i) == LET x1 == _out
                                      x2 == At(_inputs, i - 1)
                                  IN  <<IF i = 1 THEN resize(x1, Shape(x2)) ELSE x1, x2>>

FuseOperands(i) == LET x1 == IF i = Len(_inputs) - 1 THEN At(_inputs, i) ELSE _out
                       x2 == At(_inputs, i - 1)
                   IN  <<IF i = 1 THEN resize(x1, Shape(x2)) ELSE x1, x2>>

\* the last iteration appending the projected result like every other
EmittedSingle(k, i, o) == <<o>>

\* what the iteration adds to outs
Emitted(k, i, o) == IF k \in Separable
                    THEN IF i = 1 THEN <<resize(SepConv0(k, o), Shape(At(inputs, 1))), Conv("sep_conv", Ix(1), channels, o)>> ELSE <<o>>
                    ELSE <<o>>

FuseError(k, i) == LET x == FuseOperands(i)
                   IN  IF ~CanCat(x) THEN "RuntimeError: cat"
                       ELSE IF ~Accepts(channels * 2, Cat(x)) THEN "RuntimeError: linear_projections"
                       ELSE IF k \in Separable /\ i = 1 /\ ~SepConv0Fits(k, Conv("linear_projections", Ix(i - 1), channels, Cat(x))) THEN "RuntimeError: sep_conv"
                       ELSE "none"

\* where forward goes when the loop is over
AfterFuser(k) == IF k \in {"v6", "v7", "v8"} THEN "attend" ELSE "aggregate"

FuseIter == /\ kind \in PPF
            /\ pc = "fuse"
            /\ iters' = iters + 1
            /\ IF FuseError(kind, idx) # "none"
               THEN pc' = "error" /\ err' = FuseError(kind, idx) /\ UNCHANGED <<_out, outs, idx>>
               ELSE LET o == Conv("linear_projections", Ix(idx - 1), channels, Cat(FuseOperands(idx)))
                    IN  /\ _out' = o
                        /\ outs' = outs \o Emitted(kind, idx, o)
                        /\ idx' = idx - 1
                        /\ pc' = IF idx - 1 > 0 THEN "fuse" ELSE AfterFuser(kind)
                        /\ err' = "none"
            /\ UNCHANGED <<kind, in_channels, num_index, head, ctor_args, node, inputs, _inputs, out, ret, feats, P, fed, trace, rx, rsize, rret>>

-----------------------------------------------------------------------------
\* ELAPFormerHead_v6 .. _v8.forward: attention on the entries of outs.

AttendName(k) == IF k = "v6" THEN "lka" ELSE "mssa"

\* v6, v7: for i in range(len(self.lka)): outs[i] = self.lka[i](outs[i])
\* v8: outs[0] = self.mssa(outs[0])
AttendError(k) == IF head.attn > Len(outs) THEN "IndexError"
                  ELSE IF \E i \in 1..head.attn : ~Accepts(channels, outs[i]) THEN "RuntimeError: attention"
                  ELSE "none"
Attended(k) == [i \in 1..Len(outs) |-> IF i <= head.attn THEN Attn(AttendName(k), Ix(i - 1), outs[i]) ELSE outs[i]]

Attend == /\ kind \in PPF
          /\ pc = "attend"
          /\ IF AttendError(kind) # "none"
             THEN pc' = "error" /\ err' = AttendError(kind) /\ UNCHANGED outs
             ELSE outs' = Attended(kind) /\ pc' = "aggregate" /\ err' = "none"
          /\ UNCHANGED <<kind, in_channels, num_index, head, ctor_args, node, inputs, _inputs, _out, idx, iters, out, ret, feats, P, fed, trace, rx, rsize, rret>>

-----------------------------------------------------------------------------
\* ELAPFormerHead*.forward: aggregation up to the resize before the
\* identity mapping.

\* the first 4 entries concatenated in every variant
AggregateCountFour(k) == 4

\* torch.cat(outs[:4], dim=1) in v1, v2; torch.cat(outs[:3], dim=1) in v3..v8
AggregateCount(k) == IF k \in Separable THEN 4 ELSE 3
Aggregated(k) == Prefix(outs, AggregateCount(k))

\* the fused aggregate left at the size of level 1
ResidualSizeLevel1(k) == Shape(At(inputs, 1))

\* size the fused aggregate is resized to: outs[-1] in v1, v2; _inputs[0] later
ResidualSize(k) == IF k \in Separable THEN Shape(Last(outs)) ELSE Shape(At(_inputs, 0))

AggregateError(k) == IF ~CanCat(Aggregated(k)) THEN "RuntimeError: cat"
                     ELSE IF ~Accepts(head.gate, Cat(Aggregated(k))) THEN "RuntimeError: " \o GateName(k)
                     ELSE IF ~Accepts(head.fusion_conv, Cat(Aggregated(k))) THEN "RuntimeError: fusion_conv"
                     ELSE "none"

AggregateOut(k) == resize(Conv("fusion_conv", Ix(0), channels, Attn(GateName(k), Ix(0), Cat(Aggregated(k)))), ResidualSize(k))

Aggregate == /\ kind \in PPF
             /\ pc = "aggregate"
             /\ IF AggregateError(kind) # "none"
                THEN pc' = "error" /\ err' = AggregateError(kind) /\ UNCHANGED out
                ELSE out' = AggregateOut(kind) /\ pc' = "add" /\ err' = "none"
             /\ UNCHANGED <<kind, in_channels, num_index, head, ctor_args, node, inputs, _inputs, _out, outs, idx, iters, ret, feats, P, fed, trace, rx, rsize, rret>>

\* out = outs[-1] + out; out = self.cls_seg(out); return out
PPFReturn(x) == [wrapped |-> FALSE, maps |-> <<x>>]
NoReturn == [wrapped |-> FALSE, maps |-> <<>>]

IdentityMapping == /\ kind \in PPF
                   /\ pc = "add"
                   /\ IF ~CanAdd(Last(outs), out)
                      THEN pc' = "error" /\ err' = "RuntimeError: add" /\ UNCHANGED <<out, ret>>
                      ELSE /\ out' = cls_seg(Add(Last(outs), out))
                           /\ ret' = PPFReturn(cls_seg(Add(Last(outs), out)))
                           /\ pc' = "done"
                           /\ err' = "none"
                   /\ UNCHANGED <<kind, in_channels, num_index, head, ctor_args, node, inputs, _inputs, _out, outs, idx, iters, feats, P, fed, trace, rx, rsize, rret>>

-----------------------------------------------------------------------------
\* The resize policy: FusionNode._resize and RPFNHead._resize.

\* x.shape[-2:] < size: the order of Python tuples
ShapeLess(a, b) == a[1] < b[1] \/ (a[1] = b[1] /\ a[2] < b[2])

ResizeBranch(shape, size) == IF shape = size THEN "same"
                             ELSE IF ShapeLess(shape, size) THEN "interpolate"
                             ELSE "pool"

\* max-pooling without the padding of odd sides
PoolUnpadded(x) == Map(x.c, x.h \div 2, x.w \div 2, <<"max_pool2d", x.e>>)

\* F.max_pool2d(F.pad(x, [0, w % 2, 0, h % 2], 'replicate'), (2, 2))
PadPool(x) == Map(x.c, (x.h + (x.h % 2)) \div 2, (x.w + (x.w % 2)) \div 2, <<"max_pool2d", <<"pad", x.e>>>>)

\* F.interpolate(x, size=size, mode=...)
Interpolate(x, size) == Map(x.c, size[1], size[2], <<"interpolate", x.e>>)

_resize(x, size) == CASE ResizeBranch(Shape(x), size) = "same" -> x
                      [] ResizeBranch(Shape(x), size) = "interpolate" -> Interpolate(x, size)
                      [] OTHER -> PadPool(x)

RPFNHead_resize(x, size) == CASE ResizeBranch(Shape(x), size) = "same" -> x
                              [] ResizeBranch(Shape(x), size) = "interpolate" -> Interpolate(x, size)
                              [] OTHER -> PadPool(x)

-----------------------------------------------------------------------------
\* FusionNode.

OutConvCfgs == {"None", "Conv2d", "DCNv2"}

\* an assertion that lets every op_num from 2 on through
OpNumAtLeast2(op_num) == op_num >= 2

\* assert op_num == 2 or op_num == 3
OpNumValid(op_num) == op_num = 2 \/ op_num = 3

\* if out_conv_cfg is None or out_conv_cfg['type'] == 'Conv2d'
XavierApplies(cfg) == cfg = "None" \/ cfg = "Conv2d"

NodeRecord(ok, e, op_num, with_out_conv, weight, post, pre) == [ok |-> ok, err |-> e, op_num |-> op_num, with_out_conv |-> with_out_conv, weight |-> weight, post_fusion |-> post, pre_fusion |-> pre]
NoNode == NodeRecord(FALSE, "none", 0, FALSE, 0, FALSE, FALSE)

\* __init__: the assertion, the op_num gates, post_fusion when with_out_conv,
\* the initialisation loop over self.post_fusion.modules(), pre_fusion
FusionNodeInit(op_num, with_out_conv, cfg) == IF ~OpNumValid(op_num) THEN NodeRecord(FALSE, "AssertionError", 0, FALSE, 0, FALSE, FALSE)
                                              ELSE IF XavierApplies(cfg) /\ ~with_out_conv THEN NodeRecord(FALSE, "AttributeError", op_num, with_out_conv, op_num, FALSE, FALSE)
                                              ELSE NodeRecord(TRUE, "none", op_num, with_out_conv, op_num, with_out_conv, op_num > 2)

\* self.weight[i](x): FSM(in_channels, in_channels)
Gate(nm, i, x) == Conv("weight", <<nm, Ix(i)>>, channels, x)

PostFusion(nm, nd, x) == IF nd.with_out_conv THEN Ok(Conv("post_fusion", <<nm>>, channels, x)) ELSE Ok(x)

\* the third operand through a gate of its own, weight[2]
ThirdOperandOwnGate(nm, nd, x, result) == IF Len(x) < 3 THEN Fail("IndexError")
                                          ELSE IF ~Accepts(channels, x[3]) \/ ~Accepts(channels, result) THEN Fail("RuntimeError: channels")
                                          ELSE IF ~CanAdd(Conv("pre_fusion", <<nm>>, channels, result), Gate(nm, 2, x[3])) THEN Fail("RuntimeError: add")
                                          ELSE PostFusion(nm, nd, Add(Conv("pre_fusion", <<nm>>, channels, result), Gate(nm, 2, x[3])))

\* the op_num == 3 part of dynamicFusion, on the two-operand sum
ThirdOperand(nm, nd, x, result) == IF Len(x) < 3 THEN Fail("IndexError")
                                   ELSE IF ~Accepts(channels, x[3]) \/ ~Accepts(channels, result) THEN Fail("RuntimeError: channels")
                                   ELSE IF ~CanAdd(Conv("pre_fusion", <<nm>>, channels, result), Gate(nm, 1, x[3])) THEN Fail("RuntimeError: add")
                                   ELSE PostFusion(nm, nd, Add(Conv("pre_fusion", <<nm>>, channels, result), Gate(nm, 1, x[3])))

dynamicFusion(nm, nd, x) == IF Len(x) < 2 THEN Fail("IndexError")
                            ELSE IF ~Accepts(channels, x[1]) \/ ~Accepts(channels, x[2]) THEN Fail("RuntimeError: channels")
                            ELSE IF ~CanAdd(Gate(nm, 0, x[1]), Gate(nm, 1, x[2])) THEN Fail("RuntimeError: add")
                            ELSE IF nd.op_num = 3 THEN ThirdOperand(nm, nd, x, Add(Gate(nm, 0, x[1]), Gate(nm, 1, x[2])))
                            ELSE PostFusion(nm, nd, Add(Gate(nm, 0, x[1]), Gate(nm, 1, x[2])))

\* forward(x, out_size): every operand through _resize, then dynamicFusion
Resized(xs, out_size) == [i \in 1..Len(xs) |-> _resize(xs[i], out_size)]
FusionNodeForward(nm, nd, xs, out_size) == dynamicFusion(nm, nd, Resized(xs, out_size))

ConstructFusionNode == /\ kind = "FusionNode"
                       /\ pc = "new"
                       /\ node' = FusionNodeInit(ctor_args.op_num, ctor_args.with_out_conv, ctor_args.out_conv_cfg)
                       /\ pc' = IF node'.ok THEN "built" ELSE "error"
                       /\ err' = node'.err
                       /\ UNCHANGED <<kind, in_channels, num_index, head, ctor_args, inputs, _inputs, _out, outs, idx, iters, out, ret, feats, P, fed, trace, rx, rsize, rret>>

\* the operand lists a FusionNode is called with: 2 or 3 maps of the node's width
OperandShapes == (1..MaxOperand) \X (1..MaxOperand)
OperandLists == UNION {[1..n -> OperandShapes] : n \in 2..3}
Operand(i, s) == Map(channels, s[1], s[2], <<"x", Ix(i)>>)

\* FusionNode.forward(x, out_size) on a node built on its own
ForwardFusionNode == /\ kind = "FusionNode"
                     /\ pc = "built"
                     /\ \E ss \in OperandLists, size \in OperandShapes :
                          /\ inputs' = [i \in 1..Len(ss) |-> Operand(i - 1, ss[i])]
                          /\ rsize' = size
                          /\ fed' = fed @@ ("node" :> Resized(inputs', size))
                          /\ LET r == FusionNodeForward("node", node, inputs', size)
                             IN  IF r.ok
                                 THEN out' = r.val /\ pc' = "done" /\ err' = "none"
                                 ELSE out' = out /\ pc' = "error" /\ err' = r.err
                     /\ UNCHANGED <<kind, in_channels, num_index, head, ctor_args, node, _inputs, _out, outs, idx, iters, ret, feats, P, trace, rx, rret>>

CallResize == /\ kind \in ResizeOwners
              /\ pc = "new"
              /\ rret' = IF kind = "FusionNode._resize" THEN _resize(rx, rsize) ELSE RPFNHead_resize(rx, rsize)
              /\ pc' = "done"
              /\ UNCHANGED <<kind, err, in_channels, num_index, head, ctor_args, node, inputs, _inputs, _out, outs, idx, iters, out, ret, feats, P, fed, trace, rx, rsize>>

-----------------------------------------------------------------------------
\* RPFNHead.

NodeNames == {"p3", "p4", "p5", "p6"}

\* op_num each node of self.RevFP is built with
RevFPOpNum(nm) == 2

RPFNInit(in_ch) == [ok |-> \A nm \in NodeNames : FusionNodeInit(RevFPOpNum(nm), TRUE, "None").ok, num_inputs |-> Len(in_ch), convs |-> in_ch, linear_projections |-> 0, sep_conv |-> 0, attn |-> 0, gate |-> 0, fusion_conv |-> channels * 4, RevFP |-> [nm \in NodeNames |-> FusionNodeInit(RevFPOpNum(nm), TRUE, "None")], context |-> {"spatialContext", "scaleContext"}]

ConstructRPFN == /\ kind = "RPFNHead"
                 /\ pc = "new"
                 /\ head' = RPFNInit(in_channels)
                 /\ pc' = IF head'.ok THEN "built" ELSE "error"
                 /\ err' = IF head'.ok THEN "none" ELSE "AssertionError"
                 /\ UNCHANGED <<kind, in_channels, num_index, ctor_args, node, inputs, _inputs, _out, outs, idx, iters, out, ret, feats, P, fed, trace, rx, rsize, rret>>

NoP == [nm \in NodeNames |-> NoMap]

\* feats = [lateral_conv(inputs[i + self.start_level]) ...]; c3, c4, c5, c6 = feats
ForwardRPFN == /\ kind = "RPFNHead"
               /\ pc = "built"
               /\ \E pyr \in Pyramids(num_index) :
                     /\ inputs' = pyr
                     /\ feats' = [i \in 1..Len(pyr) |-> PAA_e(i - 1, pyr[i])]
                     /\ IF Len(pyr) # 4
                        THEN pc' = "error" /\ err' = "ValueError: unpack"
                        ELSE pc' = "p3" /\ err' = "none"
               /\ UNCHANGED <<kind, in_channels, num_index, head, ctor_args, node, _inputs, _out, outs, idx, iters, out, ret, P, fed, trace, rx, rsize, rret>>

c3 == At(feats, 0)
c4 == At(feats, 1)
c5 == At(feats, 2)
c6 == At(feats, 3)

\* the operands and the out_size each node is called with
NodeOperands(nm) == CASE nm = "p3" -> <<c3, c4>>
                      [] nm = "p4" -> <<c4, c5, P["p3"]>>
                      [] nm = "p5" -> <<c5, c6, P["p4"]>>
                      [] OTHER -> <<c6, P["p5"]>>
NodeSize(nm) == CASE nm = "p3" -> Shape(c3)
                  [] nm = "p4" -> Shape(c4)
                  [] nm = "p5" -> Shape(c5)
                  [] OTHER -> Shape(c6)

\* p5 evaluated before p4
NextStepP5First(nm) == CASE nm = "p3" -> "p5"
                         [] nm = "p5" -> "p4"
                         [] nm = "p4" -> "p6"
                         [] OTHER -> "resize"

\* the statement that follows the evaluation of a node
NextStep(nm) == CASE nm = "p3" -> "p4"
                  [] nm = "p4" -> "p5"
                  [] nm = "p5" -> "p6"
                  [] OTHER -> "resize"

RPFNNode == /\ kind = "RPFNHead"
            /\ pc \in NodeNames
            /\ fed' = fed @@ (pc :> Resized(NodeOperands(pc), NodeSize(pc)))
            /\ LET r == FusionNodeForward(pc, head.RevFP[pc], NodeOperands(pc), NodeSize(pc))
               IN  IF r.ok
                   THEN P' = [P EXCEPT ![pc] = r.val] /\ trace' = Append(trace, pc) /\ pc' = NextStep(pc) /\ err' = "none"
                   ELSE pc' = "error" /\ err' = r.err /\ UNCHANGED <<P, trace>>
            /\ UNCHANGED <<kind, in_channels, num_index, head, ctor_args, node, inputs, _inputs, _out, outs, idx, iters, out, ret, feats, rx, rsize, rret>>

\* p4, p5, p6 = self._resize(.., size=c3.shape[-2:])
RPFNResize == /\ kind = "RPFNHead"
              /\ pc = "resize"
              /\ P' = [nm \in NodeNames |-> IF nm = "p3" THEN P[nm] ELSE RPFNHead_resize(P[nm], Shape(c3))]
              /\ trace' = Append(trace, "resize")
              /\ pc' = "output"
              /\ UNCHANGED <<kind, err, in_channels, num_index, head, ctor_args, node, inputs, _inputs, _out, outs, idx, iters, out, ret, feats, fed, rx, rsize, rret>>

\* torch.cat([p3, p4, p5, p6], dim=1)
\* the four maps passed through the context branches before the concatenation
ConcatenatedWithContext == [i \in 1..4 |-> Attn("scaleContext", Ix(0), Attn("spatialContext", Ix(0), P[<<"p3", "p4", "p5", "p6">>[i]]))]

CatOrder == <<"p3", "p4", "p5", "p6">>
Concatenated == [i \in 1..Len(CatOrder) |-> P[CatOrder[i]]]

\* the output returned bare, as the PPF heads return it
RPFNReturnBare(x) == [wrapped |-> FALSE, maps |-> <<x>>]

\* return [output]
RPFNReturn(x) == [wrapped |-> TRUE, maps |-> <<x>>]

RPFNOutput == /\ kind = "RPFNHead"
              /\ pc = "output"
              /\ IF ~CanCat(Concatenated)
                 THEN pc' = "error" /\ err' = "RuntimeError: cat" /\ UNCHANGED <<out, ret, trace>>
                 ELSE IF ~Accepts(head.fusion_conv, Cat(Concatenated))
                 THEN pc' = "error" /\ err' = "RuntimeError: fusion_conv" /\ UNCHANGED <<out, ret, trace>>
                 ELSE /\ out' = cls_seg(Conv("fusion_conv", Ix(0), channels, Cat(Concatenated)))
                      /\ ret' = RPFNReturn(cls_seg(Conv("fusion_conv", Ix(0), channels, Cat(Concatenated))))
                      /\ trace' = Append(trace, "cat")
                      /\ pc' = "done"
                      /\ err' = "none"
              /\ UNCHANGED <<kind, in_channels, num_index, head, ctor_args, node, inputs, _inputs, _out, outs, idx, iters, feats, P, fed, rx, rsize, rret>>

-----------------------------------------------------------------------------
\* The state before anything is constructed or called.

ChannelConfigs(n) == {[i \in 1..n |-> 1], [i \in 1..n |-> i]}

Blank == /\ pc = "new"
         /\ err = "none"
         /\ head = NoHead
         /\ node = NoNode
         /\ inputs = <<>>
         /\ _inputs = <<>>
         /\ _out = NoMap
         /\ outs = <<>>
         /\ idx = 0
         /\ iters = 0
         /\ out = NoMap
         /\ ret = NoReturn
         /\ feats = <<>>
         /\ P = NoP
         /\ fed = <<>>
         /\ trace = <<>>
         /\ rret = NoMap

NoArgs == [op_num |-> 0, with_out_conv |-> FALSE, out_conv_cfg |-> "None"]

\* a head is about to be built from in_channels and in_index
InitHead == /\ kind \in Heads
            /\ \E n \in 2..MaxLevels : in_channels \in ChannelConfigs(n)
            /\ num_index \in IF kind \in PPF THEN {Len(in_channels) - 1, Len(in_channels), Len(in_channels) + 1} ELSE {Len(in_channels)}
            /\ ctor_args = NoArgs
            /\ rx = NoMap
            /\ rsize = <<0, 0>>
            /\ Blank

\* a FusionNode is about to be built from its constructor arguments
InitNode == /\ kind = "FusionNode"
            /\ ctor_args \in [op_num : 0..MaxOpNum, with_out_conv : BOOLEAN, out_conv_cfg : OutConvCfgs]
            /\ in_channels = <<>>
            /\ num_index = 0
            /\ rx = NoMap
            /\ rsize = <<0, 0>>
            /\ Blank

\* _resize is about to be called on a map and a target size
InitResize == /\ kind \in ResizeOwners
              /\ \E h \in 1..MaxSize, w \in 1..MaxSize : rx = Map(channels, h, w, <<"x">>)
              /\ rsize \in (1..MaxSize) \X (1..MaxSize)
              /\ ctor_args = NoArgs
              /\ in_channels = <<>>
              /\ num_index = 0
              /\ Blank

Init == InitHead \/ InitNode \/ InitResize

Next == \/ ConstructPPF
        \/ ForwardPPF
        \/ FuseIter
        \/ Attend
        \/ Aggregate
        \/ IdentityMapping
        \/ ConstructRPFN
        \/ ForwardRPFN
        \/ RPFNNode
        \/ RPFNResize
        \/ RPFNOutput
        \/ ConstructFusionNode
        \/ ForwardFusionNode
        \/ CallResize

Spec == Init /\ [][Next]_vars

-----------------------------------------------------------------------------
\* Properties.

PostFuser == {"attend", "aggregate", "add", "done"}

\* the input pyramid has 4 levels, each half the size of the finer one
Halving4 ==
    /\ Len(inputs) = 4
    /\ \A i \in 1..3 : inputs[i].h = 2 * inputs[i + 1].h /\ inputs[i].w = 2 * inputs[i + 1].w

\* the returned map has num_classes channels at the size of input level 0
FinestLogits(m) == m.c = num_classes /\ Shape(m) = Shape(At(inputs, 0))

\* C1: on a 4-level pyramid whose levels halve, forward of every PPF variant
\* raises no error and returns num_classes channels at the size of level 0.
C1_ForwardShape ==
    (kind \in PPF /\ Halving4) =>
        ( /\ pc # "error"
          /\ (pc = "done" => (Len(ret.maps) = 1 /\ FinestLogits(ret.maps[1]))) )

\* C2: on a pyramid in ratio 8:4:2:1 RPFNHead.forward returns a one-element
\* list holding num_classes channels at the size of the finest level; every
\* PPF forward that returns, returns the bare map.
C2_ReturnShape ==
    /\ (kind = "RPFNHead" /\ Halving4) => pc # "error"
    /\ (kind = "RPFNHead" /\ Halving4 /\ pc = "done") => (ret.wrapped /\ Len(ret.maps) = 1 /\ FinestLogits(ret.maps[1]))
    /\ (kind \in PPF /\ pc = "done") => (~ret.wrapped /\ Len(ret.maps) = 1)

C2_Witness == kind = "RPFNHead" /\ Halving4 /\ pc = "done" /\ ret.wrapped /\ Shape(ret.maps[1]) = <<8, 16>>

\* C3: the output of p3 contributes to p4 and the output of p4 to p5: every
\* operand handed to a fusion node occurs in what the node computes.
C3_EveryOperandContributes ==
    /\ (kind = "RPFNHead" /\ pc = "p5") => Occurs(P["p3"].e, P["p4"].e)
    /\ (kind = "RPFNHead" /\ pc = "p6") => Occurs(P["p4"].e, P["p5"].e)

\* C4: the nodes are evaluated in the order p3, p4, p5, p6, each after the
\* node whose output it is handed; only then are p4, p5, p6 resized and the
\* four concatenated as [p3, p4, p5, p6], fused and classified.
EvalOrder == <<"p3", "p4", "p5", "p6", "resize", "cat">>
FusedInOrder == <<"cls_seg", <<"fusion_conv", Ix(0), <<"cat", P["p3"].e, P["p4"].e, P["p5"].e, P["p6"].e>>>>>>
C4_FixedOrder ==
    kind = "RPFNHead" =>
        ( /\ trace = SubSeq(EvalOrder, 1, Len(trace))
          /\ (pc = "p4" => P["p3"].e # <<"none">>)
          /\ (pc = "p5" => P["p4"].e # <<"none">>)
          /\ (pc = "p6" => P["p5"].e # <<"none">>)
          /\ (pc = "output" => trace = SubSeq(EvalOrder, 1, 5))
          /\ (pc = "done" => trace = EvalOrder)
          /\ (pc = "done" => \A nm \in NodeNames : Shape(P[nm]) = Shape(P["p3"]))
          /\ (pc = "done" => ret.maps[1].e = FusedInOrder) )

C4_Witness == kind = "RPFNHead" /\ pc = "done" /\ trace = EvalOrder /\ P["p4"].e[1] = "interpolate"

\* C5 as stated: 4 fuser iterations on a 4-level pyramid, ending with 6
\* entries of outs in v1, v2 and 5 in v3..v8.
C5_SixOrFive ==
    (kind \in PPF /\ Len(inputs) = 4 /\ pc \in PostFuser) =>
        (iters = 4 /\ Len(outs) = IF kind \in Separable THEN 6 ELSE 5)

\* C5 amended: on a 4-level pyramid outs starts as the one aligned coarsest
\* level, grows by one entry per fuser iteration and by two in the last
\* iteration of v1, v2; the loop runs 3 times and leaves 5 entries in v1, v2
\* and 4 in v3..v8.
C5_OutsGrowth ==
    (kind \in PPF /\ Len(inputs) = 4 /\ pc \in PostFuser \cup {"fuse"}) =>
        ( /\ (iters = 0 => outs = <<Last(_inputs)>>)
          /\ iters = 3 - idx
          /\ (pc = "fuse" => Len(outs) = 1 + iters)
          /\ (pc \in PostFuser => iters = 3)
          /\ (pc \in PostFuser => Len(outs) = IF kind \in Separable THEN 5 ELSE 4) )

C5_Witness == kind = "v1" /\ Len(inputs) = 4 /\ pc = "done" /\ iters = 3 /\ Len(outs) = 5

\* C6: at the identity-mapping addition the resized aggregate and outs[-1]
\* have the same channel count and the same spatial size.
C6_ResidualExact == (kind \in PPF /\ pc = "add") => SameShape(out, Last(outs))

C6_Witness == kind = "v3" /\ pc = "add" /\ Shape(out) # Shape(At(inputs, 1)) /\ out.e[1] = "resize"

\* C7: a PPF head whose in_channels and in_index differ in length is never
\* built: construction ends in the assertion error.
C7_NoMismatchedHead ==
    (kind \in PPF /\ Len(in_channels) # num_index) =>
        ( /\ ~head.ok
          /\ pc \in {"new", "error"}
          /\ (pc = "error" => err = "AssertionError") )

C7_Witness == kind = "v8" /\ Len(in_channels) = 4 /\ num_index = 3 /\ pc = "error" /\ err = "AssertionError"

\* C8: FusionNode construction with op_num other than 2 or 3 ends in the
\* assertion error with no gate and no convolution built; every FusionNode
\* that exists has op_num 2 or 3.
NothingBuilt(nd) == nd.weight = 0 /\ ~nd.post_fusion /\ ~nd.pre_fusion
C8_OpNumChecked ==
    /\ (kind = "FusionNode" /\ pc # "new" /\ ctor_args.op_num \notin {2, 3}) => (pc = "error" /\ err = "AssertionError" /\ NothingBuilt(node))
    /\ node.ok => node.op_num \in {2, 3}
    /\ \A nm \in DOMAIN head.RevFP : head.RevFP[nm].ok => head.RevFP[nm].op_num \in {2, 3}

C8_Witness == kind = "FusionNode" /\ ctor_args.op_num = 4 /\ pc = "error" /\ err = "AssertionError" /\ node.weight = 0

\* x is no larger than the target in either dimension and differs from it
SmallerInBoth(x, size) == x.h <= size[1] /\ x.w <= size[2] /\ Shape(x) # size

\* C9: _resize returns x itself when its size is the target, interpolates to
\* exactly the target when and only when x is smaller than the target in both
\* dimensions, and pads and max-pools in every other case.
C9_BranchByBothDims ==
    (kind \in ResizeOwners /\ pc = "done") =>
        ( /\ (Shape(rx) = rsize => rret = rx)
          /\ (SmallerInBoth(rx, rsize) => (rret.e = <<"interpolate", rx.e>> /\ Shape(rret) = rsize))
          /\ ((Shape(rx) # rsize /\ ~SmallerInBoth(rx, rsize)) => rret.e = <<"max_pool2d", <<"pad", rx.e>>>>) )

CeilHalf(n) == CHOOSE k \in 0..n : 2 * k >= n /\ 2 * k < n + 2

\* C10: on the shrinking branch the result is (ceil(H/2), ceil(W/2)) whatever
\* the target: it is the target only when the target is that half size, and
\* it is still larger than the target when x is more than twice the target.
C10_HalvesOnce ==
    (kind \in ResizeOwners /\ pc = "done" /\ rret.e[1] = "max_pool2d") =>
        ( /\ Shape(rret) = <<CeilHalf(rx.h), CeilHalf(rx.w)>>
          /\ rret.c = rx.c
          /\ (Shape(rret) = rsize <=> rsize = <<CeilHalf(rx.h), CeilHalf(rx.w)>>)
          /\ ((rx.h > 2 * rsize[1] /\ rx.w > 2 * rsize[2]) => (rret.h > rsize[1] /\ rret.w > rsize[2])) )

C10_Witness == kind = "RPFNHead._resize" /\ pc = "done" /\ Shape(rx) = <<5, 5>> /\ rsize = <<2, 2>> /\ Shape(rret) = <<3, 3>>

\* what the fuser holds after its iteration at idx 3, 2 and 1 on 4 levels
Fused3 == <<"linear_projections", Ix(2), <<"cat", At(_inputs, 3).e, At(_inputs, 2).e>>>>
Fused2 == <<"linear_projections", Ix(1), <<"cat", Fused3, At(_inputs, 1).e>>>>
Fused1 == <<"linear_projections", Ix(0), <<"cat", <<"resize", Fused2>>, At(_inputs, 0).e>>>>

\* C11 as stated: the fuser on 4 levels is the chain L[3]+L[2], then the
\* projected result with L[1], then the resized result with L[0], made of
\* four linear projections each applied once.
C11_FourProjections ==
    (kind \in PPF /\ Len(inputs) = 4 /\ pc \in PostFuser) =>
        ( /\ _out.e = Fused1
          /\ head.linear_projections = 4
          /\ iters = 4 )

\* C11: on 4 levels idx runs 3, 2, 1; the iteration at idx concatenates the
\* coarser or accumulated map first and L[idx-1] second (L[3] then L[2] at
\* idx 3, the previous projected result afterwards, resized to the size of
\* L[0] at idx 1) and applies linear projection idx-1: a chain of three
\* linear projections, each applied exactly once.
C11_FuserChain ==
    (kind \in PPF /\ Len(inputs) = 4 /\ pc \in PostFuser \cup {"fuse"}) =>
        ( /\ head.linear_projections = 3
          /\ idx = 3 - iters
          /\ (iters = 1 => (_out.e = Fused3 /\ Shape(_out) = Shape(At(inputs, 1))))
          /\ (iters = 2 => (_out.e = Fused2 /\ Shape(_out) = Shape(At(inputs, 1))))
          /\ (iters = 3 => (_out.e = Fused1 /\ Shape(_out) = Shape(At(inputs, 0))))
          /\ (pc \in PostFuser => iters = 3) )

C11_Witness == kind = "v4" /\ Len(inputs) = 4 /\ pc = "done" /\ iters = 3 /\ _out.e = Fused1

\* C12: the aggregator concatenates the first 4 entries of outs in v1, v2 and
\* the first 3 in v3..v8; on a 4-level pyramid every concatenated entry has
\* the spatial size of input level 1, outs[-1] is not among them, and their
\* channel counts add up to the width the squeeze-excitation layer and the
\* fusion convolution were built for.
C12_AggregateShape ==
    (kind \in PPF /\ Len(inputs) = 4 /\ pc = "aggregate") =>
        ( /\ Aggregated(kind) = SubSeq(outs, 1, IF kind \in {"v1", "v2"} THEN 4 ELSE 3)
          /\ (\A i \in 1..Len(Aggregated(kind)) : Shape(Aggregated(kind)[i]) = Shape(At(inputs, 1)))
          /\ Len(Aggregated(kind)) = Len(outs) - 1
          /\ Cat(Aggregated(kind)).c = head.fusion_conv
          /\ (kind # "v5" => Cat(Aggregated(kind)).c = head.gate) )

C12_Witness == kind = "v2" /\ Len(inputs) = 4 /\ pc = "aggregate" /\ Len(outs) = 5 /\ Shape(Last(outs)) # Shape(outs[4])

\* C13: in v5 the aggregate of outs[:3] handed to the large-kernel attention
\* has the channel count the attention module was built for.
C13_AttnWidth ==
    (kind = "v5" /\ Len(inputs) = 4 /\ pc = "aggregate") =>
        ( /\ Len(Aggregated(kind)) = 3
          /\ Cat(Aggregated(kind)).c = head.gate )

\* whether a module called tag is applied anywhere in expression e
RECURSIVE HasTag(_, _)
HasTag(tag, e) == \/ e[1] = tag
                  \/ \E i \in 2..Len(e) : HasTag(tag, e[i])

\* C14: in v3 and v4 the attention branch is never taken: no aligned level,
\* no entry of outs and no returned map has the attention applied, and the
\* coarsest level enters the fuser as its resized projection.
C14_NeverAttended ==
    (kind \in {"v3", "v4"}) =>
        ( /\ (\A i \in 1..Len(_inputs) : ~HasTag(BranchName(kind), _inputs[i].e))
          /\ (\A i \in 1..Len(outs) : ~HasTag(BranchName(kind), outs[i].e))
          /\ (\A i \in 1..Len(ret.maps) : ~HasTag(BranchName(kind), ret.maps[i].e))
          /\ (Len(outs) > 0 =>
                ( /\ outs[1] = Last(_inputs)
                  /\ outs[1].e = <<"resize", <<"convs", Ix(Len(inputs) - 1), Last(inputs).e>>>> )) )

C14_Witness == kind = "v3" /\ pc = "done" /\ head.attn = 1 /\ Len(ret.maps) = 1 /\ ~HasTag("lka", ret.maps[1].e)

\* C15: after the attention step of v6 and v7 entry i of outs, for every
\* entry but the last, is attention module i applied to what the fuser left
\* there, and the last entry is the fuser's last result, untouched; in v8 only
\* outs[0] is attended, by the single module, and the others are untouched.
C15_AttendAllButLast ==
    (kind \in {"v6", "v7", "v8"} /\ pc \in {"aggregate", "add", "done"}) =>
        ( /\ Last(outs) = _out
          /\ Len(outs) = Len(inputs)
          /\ outs[1].e = <<AttendName(kind), Ix(0), Last(_inputs).e>>
          /\ (\A i \in 2..(Len(outs) - 1) :
                IF kind = "v8"
                THEN outs[i].e[1] = "linear_projections" /\ ~HasTag(AttendName(kind), outs[i].e)
                ELSE ( /\ outs[i].e[1] = AttendName(kind)
                       /\ outs[i].e[2] = Ix(i - 1)
                       /\ outs[i].e[3][1] = "linear_projections"
                       /\ ~HasTag(AttendName(kind), outs[i].e[3]) ))
          /\ (\A i \in 1..Len(outs) : Shape(outs[i]) = IF i = Len(outs) THEN Shape(At(inputs, 0)) ELSE Shape(At(inputs, 1))) )

C15_Witness == kind = "v7" /\ pc = "done" /\ Len(outs) = 4 /\ outs[3].e[1] = "mssa" /\ outs[3].e[2] = Ix(2) /\ Last(outs) = _out

\* the operands a FusionNode built on its own handed to dynamicFusion
NodeFed == fed["node"]
GatedBy(i, x) == <<"weight", <<"node", Ix(i)>>, x.e>>
ThreeOperandSum == <<"add", <<"pre_fusion", <<"node">>, <<"add", GatedBy(0, NodeFed[1]), GatedBy(1, NodeFed[2])>>>>, GatedBy(1, NodeFed[3])>>

\* C16: a FusionNode with op_num 3 returns
\* pre_fusion(gate0(x0) + gate1(x1)) + gate1(x2), operand 2 going through
\* the gate of index 1, with the post-fusion convolution applied last when
\* the node has one.
C16_ThreeOperands ==
    (kind = "FusionNode" /\ pc = "done" /\ node.op_num = 3) =>
        ( /\ Len(NodeFed) = 3
          /\ out.e = IF node.with_out_conv THEN <<"post_fusion", <<"node">>, ThreeOperandSum>> ELSE ThreeOperandSum )

C16_Witness == kind = "FusionNode" /\ pc = "done" /\ node.op_num = 3 /\ node.with_out_conv /\ out.e[1] = "post_fusion" /\ Shape(inputs[3]) # rsize

\* C17: a FusionNode asked for without the post-fusion convolution is built,
\* whatever the convolution configuration, and its fusion returns the gated
\* sum with no post-fusion convolution.
C17_PostFusionOptional ==
    (kind = "FusionNode" /\ pc # "new" /\ ~ctor_args.with_out_conv /\ ctor_args.op_num \in {2, 3}) =>
        ( /\ node.ok
          /\ err # "AttributeError"
          /\ (pc = "done" => out.e[1] = "add") )

\* C18: when RPFNHead.forward returns, every operand that was handed to a
\* fusion node had exactly the node's target size after the resize policy.
C18_NoSilentDegrade ==
    (kind = "RPFNHead" /\ pc = "done") =>
        (\A nm \in DOMAIN fed : \A i \in 1..Len(fed[nm]) : Shape(fed[nm][i]) = NodeSize(nm))

\* C19: RPFNHead builds the spatial and the scale context branch, and no map
\* that forward computes or returns has either of them applied.
C19_ContextUnused ==
    (kind = "RPFNHead" /\ head.ok) =>
        ( /\ head.context = {"spatialContext", "scaleContext"}
          /\ \A t \in head.context :
                /\ (\A nm \in DOMAIN P : ~HasTag(t, P[nm].e))
                /\ (\A nm \in DOMAIN fed : \A i \in 1..Len(fed[nm]) : ~HasTag(t, fed[nm][i].e))
                /\ ~HasTag(t, out.e)
                /\ (\A i \in 1..Len(ret.maps) : ~HasTag(t, ret.maps[i].e)) )

C19_Witness == kind = "RPFNHead" /\ pc = "done" /\ head.context # {} /\ Len(ret.maps) = 1 /\ HasTag("fusion_conv", ret.maps[1].e)

\* C20: in every PPF variant the placeholder _out is never read: the first
\* fuser iteration takes both operands from the aligned levels, every later
\* one reads an _out that an earlier iteration assigned, and nothing put in
\* outs or returned holds the placeholder.
C20_PlaceholderNeverRead ==
    (kind \in PPF) =>
        ( /\ (pc = "fuse" =>
                ( /\ (\A i \in 1..2 : ~HasTag("empty", FuseOperands(idx)[i].e))
                  /\ (iters = 0 <=> idx = Len(_inputs) - 1)
                  /\ (iters = 0 => _out.e = <<"empty">>)
                  /\ (iters > 0 => _out.e[1] = "linear_projections") ))
          /\ (\A i \in 1..Len(outs) : ~HasTag("empty", outs[i].e))
          /\ ~HasTag("empty", out.e)
          /\ (\A i \in 1..Len(ret.maps) : ~HasTag("empty", ret.maps[i].e)) )

C20_Witness == kind = "v6" /\ pc = "fuse" /\ iters = 1 /\ Len(inputs) = 3 /\ FuseOperands(idx)[1].e[1] = "resize" /\ FuseOperands(idx)[1].e[2] = _out.e

\* the aggregate about to be concatenated has one common spatial size and the
\* channel count the squeeze-excitation layer and fusion_conv were built for
ConsistentAggregate ==
    /\ CanCat(Aggregated(kind))
    /\ Cat(Aggregated(kind)).c = head.fusion_conv
    /\ (kind # "v5" => Cat(Aggregated(kind)).c = head.gate)

====
